---- MODULE Spec2Model ----
(***************************************************************************)
(* A model of chunked-hasher-rs (src/src/lib.rs, src/src/hashers):         *)
(* ChunkedHasher, an iterator that seeks a Read + Seek source to           *)
(* next_chunk * chunk_size, reads up to chunk_size bytes into a zeroed     *)
(* buffer, hashes the whole buffer and yields Chunk {index, size, hash}.   *)
(*                                                                         *)
(* Two iterator runs (Runs) are kept side by side so that two runs over    *)
(* two sources can be compared, as tests::perform_chunking does.           *)
(*                                                                         *)
(* u64 arithmetic is modelled on the naturals: within the bounds below no  *)
(* value comes near 2^64, and chunk_count's f64 arithmetic is exact for    *)
(* operands below 2^53.                                                    *)
(***************************************************************************)
EXTENDS Integers, Sequences, FiniteSets, TLC

VARIABLES
    src,      \* src[r]: the source behind seekable_buffer: data, cursor, operation log
    st,       \* st[r]: "new" (not constructed), "err" (ensure! failed), "iter" (Ok(Self))
    args,     \* args[r]: the constructor called and its arguments
    it,       \* it[r]: the ChunkedHasher fields chunk_size, next_chunk, read_data, stream_size
    emitted,  \* emitted[r]: every Chunk returned as Some(..) by next(), in order
    hist      \* hist[r]: observations of the calls of next() made so far

vars == <<src, st, args, it, emitted, hist>>

----------------------------------------------------------------------------
(* Bounds *)

MaxSrc == 4        \* longest source of the general specification
MaxStream == 3     \* largest stream_size argument of the general specification
MaxParam == 3      \* largest fixed_size / dynamic_amount of the general specification
MaxCalls == 4      \* calls of next() per run in the general specification
MaxLenWB == 6      \* longest source of the well-behaved specification
MaxLenPair == 6    \* longest source of the two-run specification
MaxLenCursor == 4  \* longest source of the two-cursor specification

Runs == {1, 2}
Byte == {0, 1}     \* the byte alphabet, cut down to two values

Min(a, b) == IF a <= b THEN a ELSE b

SeqsUpTo(n) == UNION {[1..k -> Byte] : k \in 0..n}

----------------------------------------------------------------------------
(* hashers::Hasher::hash_bytes: a digest of the byte slice.  The digest is *)
(* modelled as an injective encoding of the slice (length included): the   *)
(* number whose binary digits are a leading 1 followed by the bytes.       *)

RECURSIVE HashFrom(_, _, _)
HashFrom(bytes, i, acc) ==
    IF i > Len(bytes) THEN acc
    ELSE HashFrom(bytes, i + 1, acc * Cardinality(Byte) + bytes[i])

hash_bytes(bytes) == HashFrom(bytes, 1, 1)

----------------------------------------------------------------------------
(* Construction: ChunkedHasher::fixed_chunks and ::dynamic_chunks          *)

\* a constructor that forgets to check stream_size
EnsureArgs_amount_only(stream_size, amount) == amount > 0

\* the two ensure! of each constructor
EnsureArgs(stream_size, amount) == stream_size > 0 /\ amount > 0

\* fixed_chunks taking fixed_size as it comes
FixedChunkSize_unclamped(stream_size, fixed_size) == fixed_size

\* lib.rs 61-65
FixedChunkSize(stream_size, fixed_size) ==
    IF fixed_size <= stream_size THEN fixed_size ELSE stream_size

\* dynamic_chunks comparing with < in place of <=
DynamicChunkSize_strict(stream_size, dynamic_amount) ==
    IF dynamic_amount < stream_size
    THEN (stream_size - (stream_size % dynamic_amount)) \div dynamic_amount
    ELSE stream_size

\* lib.rs 112-116
DynamicChunkSize(stream_size, dynamic_amount) ==
    IF dynamic_amount <= stream_size
    THEN (stream_size - (stream_size % dynamic_amount)) \div dynamic_amount
    ELSE stream_size

\* the struct literal Ok(Self { .. }) of both constructors
NewSelf(chunk_size, stream_size) ==
    [chunk_size |-> chunk_size, stream_size |-> stream_size,
     read_data |-> 0, next_chunk |-> 0]

NoSelf == NewSelf(0, 0)

fixed_chunks(r, stream_size, fixed_size) ==
    /\ st[r] = "new"
    /\ args' = [args EXCEPT ![r] = [mode |-> "fixed", stream_size |-> stream_size,
                                    amount |-> fixed_size]]
    /\ IF EnsureArgs(stream_size, fixed_size)
       THEN /\ st' = [st EXCEPT ![r] = "iter"]
            /\ it' = [it EXCEPT ![r] =
                         NewSelf(FixedChunkSize(stream_size, fixed_size), stream_size)]
       ELSE /\ st' = [st EXCEPT ![r] = "err"]
            /\ it' = it
    /\ UNCHANGED <<src, emitted, hist>>

dynamic_chunks(r, stream_size, dynamic_amount) ==
    /\ st[r] = "new"
    /\ args' = [args EXCEPT ![r] = [mode |-> "dynamic", stream_size |-> stream_size,
                                    amount |-> dynamic_amount]]
    /\ IF EnsureArgs(stream_size, dynamic_amount)
       THEN /\ st' = [st EXCEPT ![r] = "iter"]
            /\ it' = [it EXCEPT ![r] =
                         NewSelf(DynamicChunkSize(stream_size, dynamic_amount),
                                 stream_size)]
       ELSE /\ st' = [st EXCEPT ![r] = "err"]
            /\ it' = it
    /\ UNCHANGED <<src, emitted, hist>>

\* ChunkedHasher::chunk_size
chunk_size(self) == self.chunk_size

\* chunk_count truncating the quotient, the ceil lost
chunk_count_truncated(self) == self.stream_size \div self.chunk_size

\* ChunkedHasher::chunk_count: f64::ceil(stream_size as f64 / chunk_size as f64) as u64
chunk_count(self) ==
    IF self.stream_size % self.chunk_size = 0
    THEN self.stream_size \div self.chunk_size
    ELSE self.stream_size \div self.chunk_size + 1

----------------------------------------------------------------------------
(* The source: any Read + Seek.  It holds data, a cursor pos and, as a     *)
(* record of what was done to it, the log ops.                             *)

\* start keeps where the cursor stood when the source was handed over
NewSrc(data, pos) == [data |-> data, pos |-> pos, start |-> pos, ops |-> <<>>]

\* bytes the source holds at and after offset off
Avail(data, off) == IF off < Len(data) THEN Len(data) - off ELSE 0

\* the most a read into a buffer of size bytes can return at offset off
FullRead(data, off, size) == Min(size, Avail(data, off))

\* a seek relative to the cursor: SeekFrom::Current(off)
Seek_current(s, off, ok) ==
    [s EXCEPT !.pos = IF ok THEN s.pos + off ELSE s.pos,
              !.ops = Append(s.ops, [op |-> "seek", at |-> s.pos + off,
                                     n |-> IF ok THEN 0 ELSE -1])]

\* seek(SeekFrom::Start(off)): Ok moves the cursor, Err leaves it
Seek(s, off, ok) ==
    [s EXCEPT !.pos = IF ok THEN off ELSE s.pos,
              !.ops = Append(s.ops, [op |-> "seek", at |-> off,
                                     n |-> IF ok THEN 0 ELSE -1])]

\* read(&mut buf): n >= 0 bytes placed and the cursor advanced, n = -1 an Err
Read(s, n) ==
    [s EXCEPT !.pos = IF n >= 0 THEN s.pos + n ELSE s.pos,
              !.ops = Append(s.ops, [op |-> "read", at |-> s.pos, n |-> n])]

\* only the bytes placed, &buf[..read_bytes], the zeroed tail cut off
ReadBuf_placed_only(data, off, n, size) ==
    [i \in 1..n |-> data[off + i]]

\* vec![0u8; chunk_size] after read() placed n bytes of data from offset off
ReadBuf(data, off, n, size) ==
    [i \in 1..size |-> IF i <= n THEN data[off + i] ELSE 0]

----------------------------------------------------------------------------
(* Iterator::next for ChunkedHasher                                        *)

\* the test of next() with > in place of >=
Exhausted_strict(self) == self.read_data > self.stream_size

\* lib.rs 143
Exhausted(self) == self.read_data >= self.stream_size

\* seeking to the chunk's index, the factor chunk_size lost
SeekOffset_index(self) == self.next_chunk

\* lib.rs 148
SeekOffset(self) == self.next_chunk * self.chunk_size

\* the increment of next_chunk lost
AdvanceChunk_lost(self) == self

\* lib.rs 151
AdvanceChunk(self) == [self EXCEPT !.next_chunk = self.next_chunk + 1]

\* counting down what is left of stream_size in place of counting up read_data
CountRead_shrinks(self, read_bytes) ==
    [self EXCEPT !.read_data = self.read_data + read_bytes,
                 !.stream_size = self.stream_size - read_bytes]

\* lib.rs 155
CountRead(self, read_bytes) ==
    [self EXCEPT !.read_data = self.read_data + read_bytes]

\* a descriptor whose size is the buffer's length
MakeChunk_size_of_buf(self, read_bytes, buf) ==
    [index |-> self.next_chunk - 1, size |-> Len(buf), hash |-> hash_bytes(buf)]

\* a descriptor numbered after the increment of next_chunk
MakeChunk_index_after(self, read_bytes, buf) ==
    [index |-> self.next_chunk, size |-> read_bytes, hash |-> hash_bytes(buf)]

\* lib.rs 156-160, self being the iterator after next_chunk += 1
MakeChunk(self, read_bytes, buf) ==
    [index |-> self.next_chunk - 1, size |-> read_bytes, hash |-> hash_bytes(buf)]

\* where the source's cursor stands once the seek of the next call succeeded
SeekTarget(self, s) == Seek(s, SeekOffset(self), TRUE).pos

\* One call of next() on iterator self over source s.  The read takes its
\* bytes from where the seek left the source's cursor.  seek_ok and read_res
\* (-1 = Err, else the bytes placed) are what the source answers when asked.
\* The result: the iterator and source afterwards, ret ("Some" / "None"),
\* the chunk when Some, and why ("ok", "exhausted", "seek_err", "read_err").
NextStep(self, s, seek_ok, read_res) ==
    IF Exhausted(self)
    THEN [self |-> self, src |-> s, ret |-> "None", why |-> "exhausted",
          chunk |-> <<>>]
    ELSE LET off == SeekOffset(self)
             s1 == Seek(s, off, seek_ok)
         IN IF ~seek_ok
            THEN [self |-> self, src |-> s1, ret |-> "None", why |-> "seek_err",
                  chunk |-> <<>>]
            ELSE LET self1 == AdvanceChunk(self)
                     s2 == Read(s1, read_res)
                 IN IF read_res < 0
                    THEN [self |-> self1, src |-> s2, ret |-> "None",
                          why |-> "read_err", chunk |-> <<>>]
                    ELSE [self |-> CountRead(self1, read_res), src |-> s2,
                          ret |-> "Some", why |-> "ok",
                          chunk |-> MakeChunk(self1, read_res,
                                       ReadBuf(s1.data, s1.pos, read_res,
                                               self.chunk_size))]

\* what the calls so far showed
NewHist ==
    [calls |-> 0,          \* calls of next() made
     last |-> "-",         \* what the latest call returned: "Some" / "None"
     ended |-> "no",       \* why next() first returned None, "no" before that
     yielded |-> 0,        \* descriptors yielded before next() first returned None
     io_err |-> FALSE,     \* some seek or read returned Err
     short |-> FALSE]      \* some read placed fewer bytes than it could

Observe(h, res, n_emitted, is_short) ==
    [calls |-> h.calls + 1,
     last |-> res.ret,
     ended |-> IF h.ended = "no" /\ res.ret = "None" THEN res.why ELSE h.ended,
     yielded |-> IF h.ended = "no" /\ res.ret = "None" THEN n_emitted ELSE h.yielded,
     io_err |-> IF res.why \in {"seek_err", "read_err"} THEN TRUE ELSE h.io_err,
     short |-> IF is_short THEN TRUE ELSE h.short]

next(r, seek_ok, read_res) ==
    /\ st[r] = "iter"
    /\ LET self == it[r]
           full == FullRead(src[r].data, SeekTarget(self, src[r]), self.chunk_size)
           res == NextStep(self, src[r], seek_ok, read_res)
       IN /\ read_res <= full
          /\ it' = [it EXCEPT ![r] = res.self]
          /\ src' = [src EXCEPT ![r] = res.src]
          /\ emitted' = [emitted EXCEPT ![r] =
                            IF res.ret = "Some" THEN Append(@, res.chunk) ELSE @]
          /\ hist' = [hist EXCEPT ![r] =
                         Observe(@, res, Len(emitted[r]),
                                 res.ret = "Some" /\ read_res < full)]
    /\ UNCHANGED <<st, args>>

----------------------------------------------------------------------------
(* Spec: one run over any source: any contents and length, any cursor at   *)
(* construction, seeks and reads that may fail, reads that may be short.   *)

NoArgs == [mode |-> "-", stream_size |-> 0, amount |-> 0]

InitWith(sources) ==
    /\ src \in sources
    /\ st = [r \in Runs |-> "new"]
    /\ args = [r \in Runs |-> NoArgs]
    /\ it = [r \in Runs |-> NoSelf]
    /\ emitted = [r \in Runs |-> <<>>]
    /\ hist = [r \in Runs |-> NewHist]

Init ==
    InitWith({[r \in Runs |-> IF r = 1 THEN NewSrc(d, 0) ELSE NewSrc(<<>>, 0)] :
                 d \in SeqsUpTo(MaxSrc)})

Next ==
    \/ \E L \in 0..MaxStream, S \in 0..MaxParam : fixed_chunks(1, L, S)
    \/ \E L \in 0..MaxStream, N \in 0..MaxParam : dynamic_chunks(1, L, N)
    \/ \E seek_ok \in BOOLEAN, read_res \in -1..MaxStream :
          /\ hist[1].calls < MaxCalls
          /\ next(1, seek_ok, read_res)

Spec == Init /\ [][Next]_vars

----------------------------------------------------------------------------
(* SpecWB: one run over a well-behaved source, as std::io::Cursor over a   *)
(* slice is: it holds exactly stream_size bytes, every seek succeeds and   *)
(* every read fills the buffer as far as data remains.  The caller keeps   *)
(* calling next() a little beyond the first None.                          *)

\* what a well-behaved source answers to the read of run r's next call
WBRead(r) == FullRead(src[r].data, SeekTarget(it[r], src[r]), it[r].chunk_size)

InitWB ==
    InitWith({[r \in Runs |-> IF r = 1 THEN NewSrc(d, p) ELSE NewSrc(<<>>, 0)] :
                 d \in SeqsUpTo(MaxLenWB), p \in {0, 1}})

NextWB ==
    \/ \E S \in 0..MaxLenWB : fixed_chunks(1, Len(src[1].data), S)
    \/ \E N \in 0..MaxLenWB : dynamic_chunks(1, Len(src[1].data), N)
    \/ /\ hist[1].calls <= Len(src[1].data) + 1
       /\ next(1, TRUE, WBRead(1))

SpecWB == InitWB /\ [][NextWB]_vars

----------------------------------------------------------------------------
(* SpecPair: tests::perform_chunking: two well-behaved sources of the same *)
(* length, chunked one after the other by the same constructor with the    *)
(* same arguments, each collect()ed, that is, run up to its first None.    *)
(* The two sources differ in at most two bytes.                            *)

SameLength == {p \in SeqsUpTo(MaxLenPair) \X SeqsUpTo(MaxLenPair) :
                  /\ Len(p[1]) = Len(p[2]) /\ Len(p[1]) > 0
                  /\ Cardinality({i \in 1..Len(p[1]) : p[1][i] # p[2][i]}) <= 2}

InitPair ==
    InitWith({[r \in Runs |-> NewSrc(p[r], 0)] : p \in SameLength})

NextPair ==
    \/ \E S \in 1..MaxLenPair : fixed_chunks(1, Len(src[1].data), S)
    \/ \E N \in 1..MaxLenPair : dynamic_chunks(1, Len(src[1].data), N)
    \/ /\ hist[1].ended = "no"
       /\ next(1, TRUE, WBRead(1))
    \/ /\ hist[1].ended # "no"
       /\ args[1].mode = "fixed"
       /\ fixed_chunks(2, Len(src[2].data), args[1].amount)
    \/ /\ hist[1].ended # "no"
       /\ args[1].mode = "dynamic"
       /\ dynamic_chunks(2, Len(src[2].data), args[1].amount)
    \/ /\ hist[2].ended = "no"
       /\ next(2, TRUE, WBRead(2))

SpecPair == InitPair /\ [][NextPair]_vars

----------------------------------------------------------------------------
(* SpecCursor: two runs with the same constructor and arguments over the   *)
(* same contents, the two sources' cursors standing anywhere (also past    *)
(* the end) when the iterators are constructed.  Nobody rewinds a source.  *)

InitCursor ==
    InitWith({[r \in Runs |-> NewSrc(d, IF r = 1 THEN p[1] ELSE p[2])] :
                 d \in SeqsUpTo(MaxLenCursor) \ {<<>>},
                 p \in (0..MaxLenCursor + 1) \X (0..MaxLenCursor + 1)})

SpecCursor == InitCursor /\ [][NextPair]_vars

----------------------------------------------------------------------------
(* Vocabulary of the properties                                            *)

\* ceil(a / b) on the naturals, b > 0
CeilDiv(a, b) == (a + b - 1) \div b

RECURSIVE SumSizes(_)
SumSizes(chunks) ==
    IF chunks = <<>> THEN 0 ELSE chunks[1].size + SumSizes(Tail(chunks))

\* the descriptors run r yielded before next() first returned None
Yielded(r) == SubSeq(emitted[r], 1, hist[r].yielded)

Ended(r) == hist[r].ended # "no"

\* the indices of chunks are 0, 1, 2, ... in order
DenseFromZero(chunks) == \A i \in 1..Len(chunks) : chunks[i].index = i - 1

\* run r's source held exactly stream_size bytes, never failed and filled
\* every read as far as data remained
WellBehaved(r) ==
    /\ Len(src[r].data) = it[r].stream_size
    /\ ~hist[r].io_err
    /\ ~hist[r].short

\* the positions (from 1) of the source bytes in the range of chunk k (from 0)
ChunkRange(r, k) ==
    {p \in 1..Len(src[r].data) :
        k * it[r].chunk_size < p /\ p <= (k + 1) * it[r].chunk_size}

\* the two sources differ in some byte of the range of chunk k
DiffersIn(k) ==
    \E p \in ChunkRange(1, k) : src[1].data[p] # src[2].data[p]

----------------------------------------------------------------------------
(* C1..C10                                                                 *)

\* C1: over a source that holds exactly stream_size bytes, fills every read
\* and never fails, the number of descriptors yielded before next() first
\* returns None is chunk_count() = ceil(stream_size / chunk_size): next()
\* yields a descriptor on each call until that many were yielded, and then
\* returns None.
C1_YieldsChunkCount ==
    st[1] = "iter" =>
        /\ chunk_count(it[1]) = CeilDiv(it[1].stream_size, it[1].chunk_size)
        /\ IF Ended(1)
           THEN /\ hist[1].ended = "exhausted"
                /\ hist[1].yielded = chunk_count(it[1])
                /\ Len(emitted[1]) = chunk_count(it[1])
           ELSE /\ Len(emitted[1]) = hist[1].calls
                /\ Len(emitted[1]) <= chunk_count(it[1])

\* a run of three chunks whose last is the shorter remainder has ended
C1_Witness ==
    /\ st[1] = "iter"
    /\ hist[1].ended = "exhausted"
    /\ hist[1].yielded = 3
    /\ it[1].stream_size % it[1].chunk_size # 0

\* C2 (as claimed): for any source, when no seek or read failed and next()
\* first returns None, the sizes of the emitted descriptors sum to stream_size.
C2_SizesSumToStreamSize ==
    (st[1] = "iter" /\ hist[1].ended = "exhausted" /\ ~hist[1].io_err) =>
        SumSizes(Yielded(1)) = it[1].stream_size

C4_AtMostChunkCount ==
    st[1] = "iter" => Len(emitted[1]) <= chunk_count(it[1])

\* C5 (as claimed): once next() has returned None because a seek or a read
\* failed, no later call emits a descriptor.
C5_FailedIsTerminal ==
    [][hist[1].io_err => emitted'[1] = emitted[1]]_vars

\* C6: construction fails exactly when stream_size = 0 or the sizing
\* parameter = 0, and a failed construction leaves no iterator and has done
\* no seek or read on the source.
C6_ConstructionChecksArgs ==
    st[1] # "new" =>
        /\ st[1] = "err" <=> (args[1].stream_size = 0 \/ args[1].amount = 0)
        /\ st[1] = "iter" <=> (args[1].stream_size > 0 /\ args[1].amount > 0)
        /\ st[1] = "err" =>
              /\ src[1].ops = <<>>
              /\ src[1].pos = 0
              /\ it[1] = NoSelf
              /\ emitted[1] = <<>>
              /\ hist[1] = NewHist

\* a construction refused for its sizing parameter alone
C6_Witness ==
    /\ st[1] = "err"
    /\ args[1].stream_size > 0
    /\ args[1].amount = 0

\* C7: in fixed-size mode chunk_size() is min(S, L), from construction on.
C7_FixedChunkSizeIsMin ==
    (st[1] = "iter" /\ args[1].mode = "fixed") =>
        /\ chunk_size(it[1]) <= args[1].amount
        /\ chunk_size(it[1]) <= args[1].stream_size
        /\ chunk_size(it[1]) \in {args[1].amount, args[1].stream_size}

\* an iterator whose target size exceeded the stream, after a call of next()
C7_Witness ==
    /\ st[1] = "iter"
    /\ args[1].mode = "fixed"
    /\ args[1].amount > args[1].stream_size
    /\ hist[1].calls > 0

\* C8: in dynamic mode chunk_size() is floor(L / N) when N <= L, and L when
\* N > L, and then the iterator yields exactly one chunk, holding the whole
\* stream.
C8_DynamicChunkSize ==
    (st[1] = "iter" /\ args[1].mode = "dynamic") =>
        LET L == args[1].stream_size
            N == args[1].amount
            cs == chunk_size(it[1])
        IN IF N <= L
           THEN cs * N <= L /\ L < (cs + 1) * N
           ELSE /\ cs = L
                /\ Len(emitted[1]) <= 1
                /\ hist[1].calls > 0 => Len(emitted[1]) = 1
                /\ Len(emitted[1]) = 1 =>
                      emitted[1][1] = [index |-> 0, size |-> L,
                                       hash |-> hash_bytes(src[1].data)]
                /\ Ended(1) => hist[1].yielded = 1

\* a stream of three bytes asked for in more than three chunks, ended after
\* its one chunk
C8_Witness ==
    /\ st[1] = "iter"
    /\ args[1].mode = "dynamic"
    /\ args[1].amount > args[1].stream_size
    /\ args[1].stream_size = 3
    /\ Ended(1)
    /\ Len(emitted[1]) = 1

\* C9 (as claimed): in dynamic mode with N <= L, over a well-behaved source,
\* the iterator emits N chunks of size floor(L / N) and, when L mod N is not
\* zero, exactly one more chunk, of size L mod N.
C9_RemainderInOneChunk ==
    (st[1] = "iter" /\ args[1].mode = "dynamic" /\ Ended(1)
        /\ args[1].amount <= args[1].stream_size) =>
        LET L == args[1].stream_size
            N == args[1].amount
        IN /\ Len(emitted[1]) = IF L % N = 0 THEN N ELSE N + 1
           /\ \A i \in 1..Len(emitted[1]) :
                 emitted[1][i].size = IF i <= N THEN L \div N ELSE L % N

\* C10: two well-behaved sources of the same length, chunked with the same
\* constructor and arguments, give sequences of the same length whose
\* descriptors agree in index and size everywhere, and differ in hash at
\* exactly the chunks whose byte range holds a byte the sources differ in.
C10_OnlyChangedChunksDiffer ==
    (st[1] = "iter" /\ st[2] = "iter" /\ Ended(1) /\ Ended(2)) =>
        /\ Len(emitted[1]) = Len(emitted[2])
        /\ \A i \in 1..Len(emitted[1]) :
              /\ emitted[1][i].index = emitted[2][i].index
              /\ emitted[1][i].size = emitted[2][i].size
              /\ emitted[1][i].hash # emitted[2][i].hash <=> DiffersIn(i - 1)

\* two finished runs of six chunks over sources that differ in chunks 1
\* and 5 only
C10_Witness ==
    /\ st[1] = "iter" /\ st[2] = "iter" /\ Ended(1) /\ Ended(2)
    /\ Len(emitted[1]) = 6
    /\ {k \in 0..5 : DiffersIn(k)} = {1, 5}
    /\ {i \in 1..6 : emitted[1][i] # emitted[2][i]} = {2, 6}

----------------------------------------------------------------------------
(* C11..C18                                                                *)

\* a buffer of size bytes: the n bytes of data after offset off, then zeros
Padded(data, off, n, size) ==
    SubSeq(data, off + 1, off + n) \o [j \in 1..(size - n) |-> 0]

IsRead(o) == o.op = "read"

\* the reads made on run r's source, failed ones included, in order
Reads(r) == SelectSeq(src[r].ops, IsRead)

\* C11: over a source of exactly stream_size bytes that fills every read,
\* every emitted descriptor but the last has size chunk_size, and the last
\* (the one numbered chunk_count()) has size stream_size mod chunk_size when
\* that is not zero and chunk_size otherwise.
C11_OnlyLastChunkShort ==
    st[1] = "iter" =>
        LET cs == it[1].chunk_size
            L == it[1].stream_size
            n == CeilDiv(L, cs)
        IN \A i \in 1..Len(emitted[1]) :
              emitted[1][i].size =
                  IF i < n \/ L % cs = 0 THEN cs ELSE L % cs

\* the scaled example: 5 bytes in chunks of 2 give sizes 2, 2 and 1
C11_Witness ==
    /\ st[1] = "iter"
    /\ args[1] = [mode |-> "fixed", stream_size |-> 5, amount |-> 2]
    /\ Ended(1)
    /\ Len(emitted[1]) = 3
    /\ emitted[1][1].size = 2 /\ emitted[1][2].size = 2 /\ emitted[1][3].size = 1

\* C12: every descriptor's hash is the digest of the whole chunk_size-byte
\* buffer, the size bytes read followed by chunk_size - size zeros, and not
\* the digest of the size bytes alone.
C12_HashOfWholeBuffer ==
    st[1] = "iter" =>
        \A i \in 1..Len(emitted[1]) :
            LET c == emitted[1][i]
                cs == it[1].chunk_size
                off == c.index * cs
            IN /\ c.hash = hash_bytes(Padded(src[1].data, off, c.size, cs))
               /\ c.size < cs =>
                     c.hash # hash_bytes(SubSeq(src[1].data, off + 1, off + c.size))

\* a short chunk and a full chunk whose further bytes are zero carry the same
\* hash and different sizes
C12_Witness ==
    /\ st[1] = "iter"
    /\ \E i, j \in 1..Len(emitted[1]) :
          /\ emitted[1][i].size = it[1].chunk_size
          /\ emitted[1][j].size < emitted[1][i].size
          /\ emitted[1][j].size > 0
          /\ emitted[1][j].hash = emitted[1][i].hash

\* C13: once read_data >= stream_size a call of next() returns None, does
\* no seek and no read, and leaves next_chunk and read_data as they are.
C13_ExhaustedIsTerminal ==
    [][(st[1] = "iter" /\ it[1].read_data >= it[1].stream_size) =>
          /\ it' = it
          /\ src' = src
          /\ emitted' = emitted
          /\ hist'[1].last = "None"]_vars

\* an error-free run that yielded a descriptor and was called twice more
\* after its data was consumed
C13_Witness ==
    /\ st[1] = "iter"
    /\ it[1].read_data >= it[1].stream_size
    /\ ~hist[1].io_err
    /\ Len(emitted[1]) >= 1
    /\ hist[1].calls >= Len(emitted[1]) + 2

\* C14 (as claimed): when no seek or read fails, chunk k is read from offset
\* k * chunk_size and chunk k + 1 starts where the bytes read for chunk k
\* end, also when the source returns short reads before the end of the stream.
\* (Stated for a source of exactly stream_size bytes whose reads all place
\* at least one byte.)
C14_RangesContiguous ==
    (st[1] = "iter" /\ ~hist[1].io_err
        /\ Len(src[1].data) = it[1].stream_size
        /\ \A k \in 1..Len(Reads(1)) : Reads(1)[k].n > 0) =>
        \A k \in 1..Len(Reads(1)) :
            /\ Reads(1)[k].at = (k - 1) * it[1].chunk_size
            /\ k > 1 => Reads(1)[k].at = Reads(1)[k - 1].at + Reads(1)[k - 1].n

\* C15: a call of next() whose seek fails leaves next_chunk and read_data
\* unchanged; a call whose seek succeeds and whose read fails advances
\* next_chunk by exactly 1 and leaves read_data unchanged; both return None
\* and emit nothing.
C15_ErrorSteps ==
    [][LET o == src[1].ops
           o2 == src'[1].ops
       IN /\ (Len(o2) = Len(o) + 1 /\ o2[Len(o2)].n = -1) =>
                /\ o2[Len(o2)].op = "seek"
                /\ it' = it
                /\ emitted' = emitted
                /\ hist'[1].last = "None"
          /\ (Len(o2) = Len(o) + 2 /\ o2[Len(o2)].n = -1) =>
                /\ o2[Len(o2)].op = "read"
                /\ it'[1].next_chunk = it[1].next_chunk + 1
                /\ it'[1].read_data = it[1].read_data
                /\ emitted' = emitted
                /\ hist'[1].last = "None"]_vars

\* a call whose seek failed, then a call whose read failed
C15_Witness ==
    /\ st[1] = "iter"
    /\ Len(src[1].ops) = 3
    /\ src[1].ops[1].op = "seek" /\ src[1].ops[1].n = -1
    /\ src[1].ops[3].op = "read" /\ src[1].ops[3].n = -1
    /\ it[1].next_chunk = 1
    /\ it[1].read_data = 0
    /\ emitted[1] = <<>>

\* C16: no call of next() changes chunk_size or stream_size, so chunk_size()
\* and chunk_count() stay what they were at construction; nor does it change
\* the bytes the source holds.
C16_SizesFixed ==
    [][st[1] = "iter" =>
          /\ st' = st
          /\ chunk_size(it'[1]) = chunk_size(it[1])
          /\ it'[1].stream_size = it[1].stream_size
          /\ it'[1].stream_size = args[1].stream_size
          /\ chunk_count(it'[1]) = chunk_count(it[1])
          /\ src'[1].data = src[1].data]_vars

\* an iterator that has failed once, emitted a descriptor and ended
C16_Witness ==
    /\ st[1] = "iter"
    /\ hist[1].io_err
    /\ Len(emitted[1]) >= 1
    /\ it[1].read_data >= it[1].stream_size
    /\ hist[1].last = "None"

\* C17 (as claimed): read_data <= stream_size in every reachable state, also
\* when the source holds more bytes than declared.
C17_ReadDataWithinStream ==
    st[1] = "iter" => it[1].read_data <= it[1].stream_size

\* C18: two runs with the same constructor and arguments over the same
\* contents emit the same descriptors wherever the sources' cursors stood at
\* construction, and every read is made at next_chunk * chunk_size.
C18_CursorIndependent ==
    /\ (st[1] = "iter" /\ st[2] = "iter" /\ Ended(1) /\ Ended(2)) =>
          emitted[1] = emitted[2]
    /\ \A r \in Runs : \A k \in 1..Len(Reads(r)) :
          Reads(r)[k].at = (k - 1) * it[r].chunk_size

\* two finished runs of at least two chunks, one started with the cursor
\* past the end of the source, the other somewhere else
C18_Witness ==
    /\ st[1] = "iter" /\ st[2] = "iter" /\ Ended(1) /\ Ended(2)
    /\ src[1].start > Len(src[1].data)
    /\ src[2].start # src[1].start
    /\ Len(emitted[1]) >= 2
    /\ Len(emitted[2]) >= 2

====
